---- MODULE Spec2Model ----
(***************************************************************************)
(* Graceful shutdown orchestrator (srv.StartWithGracefulShutdown) and the  *)
(* signal-to-cancellation bridge (signals.Context).                        *)
(*                                                                         *)
(* Time is a discrete clock `now`.  Every step of a goroutine that is not  *)
(* blocked takes no time: the clock advances (Tick) only when no goroutine *)
(* has a step it can take, so a timer fires and a sleeper wakes at the     *)
(* instant it is due, and steps that are due at the same instant are taken *)
(* in every order.                                                         *)
(***************************************************************************)
EXTENDS Integers, Sequences, FiniteSets, TLC

\* ---- bounds of the model
MaxHandlers == 2
MaxTimeout == 3
MaxLat == 2
MaxDrain == 2
MaxTime == 11
\* the longest value of the environment variable, in characters
MaxStr == 2
\* the width of int (strconv.IntSize), scaled down
IntBits == 4

\* ---- program constants
\* the bridge's grace period, in clock units (seconds)
BridgeGrace == 10

NoTime == 0 - 1
Hang == 0 - 1

Signals == {"SIGHUP", "SIGINT", "SIGTERM", "SIGQUIT"}
\* a registration that leaves SIGTERM out
NotifyContextSignals_InterruptOnly == {"SIGINT"}

\* the signals signal.NotifyContext is given in StartWithGracefulShutdown
NotifyContextSignals == {"SIGINT", "SIGTERM"}
\* the signals signal.Notify is given in signals.Context
BridgeSignals == {"SIGHUP", "SIGINT", "SIGTERM", "SIGQUIT"}

\* the inputs tried: a timeout that is already over, a short and a long one; a
\* handler that returns at once, after 1 or MaxLat, or never; connections that
\* are idle at once, after MaxDrain, or never
Timeouts == {0, 1, MaxTimeout}
Latencies == {0, 1, MaxLat, Hang}
Drains == {0, MaxDrain, Hang}
\* the handler lists tried: up to MaxHandlers handlers, slowest last (a handler
\* that never returns first)
HandlerLists ==
    {hs \in UNION {[1..n -> Latencies] : n \in 0..MaxHandlers} :
        \A i \in DOMAIN hs : \A j \in DOMAIN hs : i < j => hs[i] <= hs[j]}

VARIABLES
    now,        \* the clock
    exit,       \* how the process ended: "none" while it runs
    cfg,        \* ServerConfig: [TLSEnabled]
    pc,         \* position of StartWithGracefulShutdown's main flow
    timeout,    \* the timeout argument
    handlers,   \* the handlers argument: each handler's latency (Hang: never returns)
    h,          \* per handler: [st, inv, tok, startAt, retAt]
    wg,         \* sync.WaitGroup counter
    tok,        \* lifecycle tokens: [parentDone, ctxDone]
    nc,         \* signal.NotifyContext: [installed, ch, go]
    tm,         \* deadline tokens: shutdownCtx and the bridge's shutdownCtx: [deadline, err]
    wd,         \* the watchdog goroutine
    lst,        \* the listener goroutine
    sh,         \* srv.Shutdown: [calls, drain, at, lnerr, res, retAt]
    br,         \* the bridge: [st, ch, sigAt, wd]
    log,        \* number of log lines written, by event
    joinAt,     \* the instant wg.Wait() returned
    environ,    \* the environment variable looked up: what os.LookupEnv returns, [val, ok]
    ret         \* what the last call of Start or of an environment helper returned

vars == <<now, exit, cfg, pc, timeout, handlers, h, wg, tok, nc, tm, wd, lst, sh, br, log, joinAt,
          environ, ret>>

alive == exit = "none"

LogEvents == {"starting", "signal", "handler_failed", "timed_out", "shutdown_failed",
              "complete", "tls_failed", "server_failed", "bridge_notice", "bridge_fatal",
              "test_starting", "test_failed"}

Logged(e) == [log EXCEPT ![e] = @ + 1]

NoCtx == [deadline |-> NoTime, err |-> "none"]

\* ------------------------------------------------- strconv, package os/env

\* the characters the values of the environment variable are made of
Chars == {"0", "1", "9", "-", "+", "t", "x"}
Strings == UNION {[1..n -> Chars] : n \in 0..MaxStr}
\* longer values that strconv.ParseBool accepts
Words == {<<"t", "r", "u", "e">>, <<"F", "a", "l", "s", "e">>}
\* what os.LookupEnv can return: not set, or set to a value (the empty one too)
Environs == {[val |-> << >>, ok |-> FALSE]} \cup {[val |-> v, ok |-> TRUE] : v \in Strings \cup Words}
\* the variadic default: none, or one
StrParams == {<< >>, << << >> >>, << <<"x">> >>}
IntParams == {<< >>, <<0>>, <<5>>, <<0 - 1>>}
BoolParams == {<< >>, <<TRUE>>, <<FALSE>>}

MaxInt == 2 ^ (IntBits - 1) - 1
MinInt == 0 - 2 ^ (IntBits - 1)

IsDigit(c) == c \in {"0", "1", "2", "3", "4", "5", "6", "7", "8", "9"}
DigitVal(c) ==
    CASE c = "0" -> 0 [] c = "1" -> 1 [] c = "2" -> 2 [] c = "3" -> 3 [] c = "4" -> 4
      [] c = "5" -> 5 [] c = "6" -> 6 [] c = "7" -> 7 [] c = "8" -> 8 [] c = "9" -> 9

\* the number a string of digits denotes (strconv.ParseUint's loop, base 10)
RECURSIVE ParseUint(_)
ParseUint(s) ==
    IF s = << >> THEN 0
    ELSE ParseUint(SubSeq(s, 1, Len(s) - 1)) * 10 + DigitVal(s[Len(s)])

\* strconv.Atoi: an optional sign, then digits only; no digit or another
\* character is a syntax error with value 0; a numeral out of the range of int
\* is a range error with the nearest value of int
Atoi(s) ==
    LET signed == s # << >> /\ s[1] \in {"+", "-"}
        neg == s # << >> /\ s[1] = "-"
        body == IF signed THEN Tail(s) ELSE s
    IN  IF body = << >> \/ \E i \in DOMAIN body : ~IsDigit(body[i])
        THEN [val |-> 0, err |-> "ErrSyntax"]
        ELSE IF ~neg /\ ParseUint(body) > MaxInt
        THEN [val |-> MaxInt, err |-> "ErrRange"]
        ELSE IF neg /\ ParseUint(body) > 0 - MinInt
        THEN [val |-> MinInt, err |-> "ErrRange"]
        ELSE [val |-> IF neg THEN 0 - ParseUint(body) ELSE ParseUint(body), err |-> "nil"]

\* strconv.ParseBool
ParseBool(s) ==
    IF s \in {<<"1">>, <<"t">>, <<"T">>, <<"T", "R", "U", "E">>, <<"t", "r", "u", "e">>,
              <<"T", "r", "u", "e">>}
    THEN [val |-> TRUE, err |-> "nil"]
    ELSE IF s \in {<<"0">>, <<"f">>, <<"F">>, <<"F", "A", "L", "S", "E">>,
                   <<"f", "a", "l", "s", "e">>, <<"F", "a", "l", "s", "e">>}
    THEN [val |-> FALSE, err |-> "nil"]
    ELSE [val |-> FALSE, err |-> "ErrSyntax"]

\* env.GetEnv(varName, params...)
env_GetEnv(params) ==
    IF ~environ.ok
    THEN IF Len(params) = 0
         THEN [val |-> environ.val, err |-> "not set"]
         ELSE [val |-> params[1], err |-> "nil"]
    ELSE [val |-> environ.val, err |-> "nil"]

\* a helper that falls back to the default when the value does not parse
env_GetEnvAsInt_DefaultOnError(params) ==
    IF ~environ.ok \/ (Atoi(environ.val).err # "nil" /\ Len(params) > 0)
    THEN IF Len(params) = 0
         THEN [val |-> 0, err |-> "not set"]
         ELSE [val |-> params[1], err |-> "nil"]
    ELSE IF Atoi(environ.val).err # "nil"
    THEN [val |-> Atoi(environ.val).val, err |-> "can't be parsed as an integer"]
    ELSE [val |-> Atoi(environ.val).val, err |-> "nil"]

\* env.GetEnvAsInt(varName, params...)
env_GetEnvAsInt(params) ==
    IF ~environ.ok
    THEN IF Len(params) = 0
         THEN [val |-> 0, err |-> "not set"]
         ELSE [val |-> params[1], err |-> "nil"]
    ELSE IF Atoi(environ.val).err # "nil"
    THEN [val |-> Atoi(environ.val).val, err |-> "can't be parsed as an integer"]
    ELSE [val |-> Atoi(environ.val).val, err |-> "nil"]

\* env.GetEnvAsBool(varName, params...)
env_GetEnvAsBool(params) ==
    IF ~environ.ok
    THEN IF Len(params) = 0
         THEN [val |-> FALSE, err |-> "not set"]
         ELSE [val |-> params[1], err |-> "nil"]
    ELSE IF ParseBool(environ.val).err # "nil"
    THEN [val |-> ParseBool(environ.val).val, err |-> "can't be parsed as a boolean"]
    ELSE [val |-> ParseBool(environ.val).val, err |-> "nil"]

\* os.GetEnvAsInt(varName, params...): what strconv.Atoi returns is returned as it is
os_GetEnvAsInt(params) ==
    IF ~environ.ok
    THEN IF Len(params) = 0
         THEN [val |-> 0, err |-> "not set"]
         ELSE [val |-> params[1], err |-> "nil"]
    ELSE Atoi(environ.val)

\* os.GetEnvAsBool(varName, params...)
os_GetEnvAsBool(params) ==
    IF ~environ.ok
    THEN IF Len(params) = 0
         THEN [val |-> FALSE, err |-> "not set"]
         ELSE [val |-> params[1], err |-> "nil"]
    ELSE ParseBool(environ.val)

NoRet == [fn |-> "none", params |-> << >>, val |-> 0, err |-> "nil"]
Returned(fn, params, r) == [fn |-> fn, params |-> params, val |-> r.val, err |-> r.err]

\* the server before it is started
NewServer ==
    /\ now = 0
    /\ exit = "none"
    /\ cfg \in [TLSEnabled : BOOLEAN]
    /\ pc = "idle"
    /\ timeout = 0
    /\ handlers = << >>
    /\ h = << >>
    /\ wg = 0
    /\ tok = [parentDone |-> FALSE, ctxDone |-> FALSE]
    /\ nc = [installed |-> FALSE, ch |-> 0, go |-> "none"]
    /\ tm = [shutdownCtx |-> NoCtx, bridgeCtx |-> NoCtx]
    /\ wd = "none"
    /\ lst = "none"
    /\ sh = [calls |-> 0, drain |-> 0, at |-> NoTime, lnerr |-> FALSE, res |-> "none", retAt |-> NoTime]
    /\ br = [st |-> "absent", ch |-> 0, sigAt |-> NoTime, wd |-> "none"]
    /\ log = [e \in LogEvents |-> 0]
    /\ joinAt = NoTime

\* the state after construction: the variable is not set, nothing was called
Init ==
    /\ NewServer
    /\ environ = [val |-> << >>, ok |-> FALSE]
    /\ ret = NoRet

\* context.WithTimeout(parent, d) at instant `now`: a non-positive d, or a parent
\* that is already cancelled, gives a token that is done from the start
WithTimeout(parentDone, d) ==
    [deadline |-> now + d,
     err |-> IF parentDone THEN "Canceled"
             ELSE IF d <= 0 THEN "DeadlineExceeded" ELSE "none"]

\* the cancel function of a deadline token: the first cause of cancellation stays
Cancel(c) == [c EXCEPT !.err = IF @ = "none" THEN "Canceled" ELSE @]

\* ---------------------------------------------------------------- main flow

\* StartWithGracefulShutdown(parentCtx, timeout, handlers...) is called
Call(to, hs) ==
    /\ alive /\ pc = "idle"
    /\ pc' = "tls"
    /\ timeout' = to
    /\ handlers' = hs
    /\ h' = [i \in 1..Len(hs) |-> [st |-> "idle", inv |-> 0, tok |-> "none",
                                   startAt |-> NoTime, retAt |-> NoTime]]
    /\ UNCHANGED <<now, exit, cfg, wg, tok, nc, tm, wd, lst, sh, br, log, joinAt, environ, ret>>

\* credentials that are loaded only after signal.NotifyContext
LoadTLS_AfterNotify ==
    /\ alive
    /\ \/ /\ pc = "tls" /\ pc' = "notify"
          /\ UNCHANGED <<exit, log>>
       \/ /\ pc = "go_listen" /\ cfg.TLSEnabled /\ pc' = pc
          /\ exit' = "tls"
          /\ log' = Logged("tls_failed")
    /\ UNCHANGED <<now, cfg, timeout, handlers, h, wg, tok, nc, tm, wd, lst, sh, br, joinAt, environ, ret>>

LoadTLSGuard == alive /\ pc = "tls"
LoadTLS ==
    /\ LoadTLSGuard
    /\ \E ok \in BOOLEAN :
         IF cfg.TLSEnabled /\ ~ok
         THEN /\ exit' = "tls"
              /\ log' = Logged("tls_failed")
              /\ pc' = pc
         ELSE /\ pc' = "notify"
              /\ UNCHANGED <<exit, log>>
    /\ UNCHANGED <<now, cfg, timeout, handlers, h, wg, tok, nc, tm, wd, lst, sh, br, joinAt, environ, ret>>

\* ctx, stop := signal.NotifyContext(parentCtx, SIGINT, SIGTERM)
NotifyContextGuard == alive /\ pc = "notify"
NotifyContext ==
    /\ NotifyContextGuard
    /\ tok' = [tok EXCEPT !.ctxDone = tok.parentDone]
    /\ nc' = [installed |-> TRUE, ch |-> 0,
              go |-> IF tok.parentDone THEN "none" ELSE "waiting"]
    /\ pc' = "go_listen"
    /\ UNCHANGED <<now, exit, cfg, timeout, handlers, h, wg, tm, wd, lst, sh, br, log, joinAt, environ, ret>>

GoListenGuard == alive /\ pc = "go_listen"
GoListen ==
    /\ GoListenGuard
    /\ lst' = "spawned"
    /\ pc' = "wait_ctx"
    /\ UNCHANGED <<now, exit, cfg, timeout, handlers, h, wg, tok, nc, tm, wd, sh, br, log, joinAt, environ, ret>>

\* a deadline token derived from ctx, as the bridge derives its own
AwaitCtx_Derived ==
    /\ alive /\ pc = "wait_ctx" /\ tok.ctxDone
    /\ log' = Logged("signal")
    /\ tm' = [tm EXCEPT !.shutdownCtx = WithTimeout(tok.ctxDone, timeout)]
    /\ wd' = "waiting"
    /\ pc' = "spawn"
    /\ UNCHANGED <<now, exit, cfg, timeout, handlers, h, wg, tok, nc, lst, sh, br, joinAt, environ, ret>>

\* a main flow that does not wait for the token
AwaitCtxGuard_NoWait == alive /\ pc = "wait_ctx"

\* <-ctx.Done(); shutdownCtx, cancel := context.WithTimeout(context.Background(),
\* timeout); go func() { the watchdog }()
AwaitCtxGuard == alive /\ pc = "wait_ctx" /\ tok.ctxDone
AwaitCtx ==
    /\ AwaitCtxGuard
    /\ log' = Logged("signal")
    /\ tm' = [tm EXCEPT !.shutdownCtx = WithTimeout(FALSE, timeout)]
    /\ wd' = "waiting"
    /\ pc' = "spawn"
    /\ UNCHANGED <<now, exit, cfg, timeout, handlers, h, wg, tok, nc, lst, sh, br, joinAt, environ, ret>>

\* for _, h := range handlers { wg.Add(1); go func(handler) {...}(h) }
SpawnGuard == alive /\ pc = "spawn"
Spawn ==
    /\ SpawnGuard
    /\ h' = [i \in DOMAIN h |-> [h[i] EXCEPT !.st = "spawned"]]
    /\ wg' = wg + Len(handlers)
    /\ pc' = "wg_wait"
    /\ UNCHANGED <<now, exit, cfg, timeout, handlers, tok, nc, tm, wd, lst, sh, br, log, joinAt, environ, ret>>

\* handlers invoked one after the other
HandlerStartGuard_Sequential(i) ==
    alive /\ h[i].st = "spawned" /\ \A j \in 1..(i - 1) : h[j].st = "returned"

\* the goroutine of handler i calls handler.Shutdown(shutdownCtx)
HandlerStartGuard(i) == alive /\ h[i].st = "spawned"
HandlerStart(i) ==
    /\ HandlerStartGuard(i)
    /\ h' = [h EXCEPT ![i] = [@ EXCEPT !.st = "running", !.inv = @ + 1,
                                       !.tok = "shutdownCtx", !.startAt = now]]
    /\ UNCHANGED <<now, exit, cfg, pc, timeout, handlers, wg, tok, nc, tm, wd, lst, sh, br, log, joinAt, environ, ret>>

\* a handler's error treated like the listener's: logged, then os.Exit(1)
HandlerReturn_Fatal(i) ==
    /\ alive /\ h[i].st = "running"
    /\ handlers[i] # Hang /\ now >= h[i].startAt + handlers[i]
    /\ h' = [h EXCEPT ![i] = [@ EXCEPT !.st = "returned", !.retAt = now]]
    /\ \E err \in BOOLEAN :
         /\ log' = IF err THEN Logged("handler_failed") ELSE log
         /\ exit' = IF err THEN "handler" ELSE exit
    /\ wg' = wg - 1
    /\ UNCHANGED <<now, cfg, pc, timeout, handlers, tok, nc, tm, wd, lst, sh, br, joinAt, environ, ret>>

\* handler.Shutdown returns, with an error or without; the error is logged; wg.Done()
HandlerReturnGuard(i) ==
    /\ alive /\ h[i].st = "running"
    /\ handlers[i] # Hang /\ now >= h[i].startAt + handlers[i]
HandlerReturn(i) ==
    /\ HandlerReturnGuard(i)
    /\ h' = [h EXCEPT ![i] = [@ EXCEPT !.st = "returned", !.retAt = now]]
    /\ \E err \in BOOLEAN : log' = IF err THEN Logged("handler_failed") ELSE log
    /\ wg' = wg - 1
    /\ UNCHANGED <<now, exit, cfg, pc, timeout, handlers, tok, nc, tm, wd, lst, sh, br, joinAt, environ, ret>>

\* a join that does not wait for the handlers
WgWaitGuard_NoBarrier == alive /\ pc = "wg_wait"

\* wg.Wait()
WgWaitGuard == alive /\ pc = "wg_wait" /\ wg = 0
WgWait ==
    /\ WgWaitGuard
    /\ pc' = "srv_shutdown"
    /\ joinAt' = now
    /\ UNCHANGED <<now, exit, cfg, timeout, handlers, h, wg, tok, nc, tm, wd, lst, sh, br, log, environ, ret>>

\* srv.Shutdown(shutdownCtx) is entered: the listener is closed and the in-flight
\* connections (none when the listener never served) start to drain
SrvShutdownGuard == alive /\ pc = "srv_shutdown"
SrvShutdown ==
    /\ SrvShutdownGuard
    /\ \E d \in (IF lst = "serving" THEN Drains ELSE {0}),
          le \in (IF lst = "serving" THEN BOOLEAN ELSE {FALSE}) :
         sh' = [sh EXCEPT !.calls = @ + 1, !.drain = d, !.at = now, !.lnerr = le]
    /\ lst' = IF lst = "serving" THEN "closing" ELSE lst
    /\ pc' = "srv_draining"
    /\ UNCHANGED <<now, exit, cfg, timeout, handlers, h, wg, tok, nc, tm, wd, br, log, joinAt, environ, ret>>

Drained == sh.drain # Hang /\ now >= sh.at + sh.drain
\* srv.Shutdown never looks at its token when the connections are idle at once
Expired == sh.drain # 0 /\ tm.shutdownCtx.err # "none"

\* a listener shutdown whose error is logged and otherwise ignored
SrvShutdownReturn_ErrorLogged ==
    /\ alive /\ pc = "srv_draining" /\ (Drained \/ Expired)
    /\ \E byToken \in BOOLEAN :
         /\ byToken => Expired
         /\ ~byToken => Drained
         /\ sh' = [sh EXCEPT !.res = IF byToken \/ sh.lnerr THEN "err" ELSE "nil", !.retAt = now]
         /\ log' = IF byToken \/ sh.lnerr THEN Logged("shutdown_failed") ELSE log
    /\ pc' = "complete"
    /\ UNCHANGED <<now, exit, cfg, timeout, handlers, h, wg, tok, nc, tm, wd, lst, br, joinAt, environ, ret>>

\* srv.Shutdown returns: nil or the listener's close error once the connections
\* are idle, the token's error once the token is done; an error is fatal
SrvShutdownReturnGuard == alive /\ pc = "srv_draining" /\ (Drained \/ Expired)
SrvShutdownReturn ==
    /\ SrvShutdownReturnGuard
    /\ \E byToken \in BOOLEAN :
         /\ byToken => Expired
         /\ ~byToken => Drained
         /\ IF byToken \/ sh.lnerr
            THEN /\ sh' = [sh EXCEPT !.res = "err", !.retAt = now]
                 /\ log' = Logged("shutdown_failed")
                 /\ exit' = "srv_shutdown"
                 /\ pc' = pc
            ELSE /\ sh' = [sh EXCEPT !.res = "nil", !.retAt = now]
                 /\ pc' = "complete"
                 /\ UNCHANGED <<log, exit>>
    /\ UNCHANGED <<now, cfg, timeout, handlers, h, wg, tok, nc, tm, wd, lst, br, joinAt, environ, ret>>

\* "Shutdown complete"; the deferred cancel() and stop() run; the function returns
ReturnGuard == alive /\ pc = "complete"
Return ==
    /\ ReturnGuard
    /\ log' = Logged("complete")
    /\ tm' = [tm EXCEPT !.shutdownCtx = Cancel(@)]
    /\ tok' = [tok EXCEPT !.ctxDone = TRUE]
    /\ nc' = [nc EXCEPT !.installed = FALSE]
    /\ pc' = "returned"
    /\ UNCHANGED <<now, exit, cfg, timeout, handlers, h, wg, wd, lst, sh, br, joinAt, environ, ret>>

\* the caller's main returns after StartWithGracefulShutdown has returned
CallerExit ==
    /\ alive /\ pc = "returned"
    /\ exit' = "clean"
    /\ UNCHANGED <<now, cfg, pc, timeout, handlers, h, wg, tok, nc, tm, wd, lst, sh, br, log, joinAt, environ, ret>>

\* ------------------------------------------------- deadline tokens, watchdog

\* a timer that may fire before its deadline
TimerFireGuard_Early(c) ==
    alive /\ tm[c].deadline # NoTime /\ tm[c].err = "none"

\* the timer of a context.WithTimeout token fires at its deadline
TimerFireGuard(c) ==
    alive /\ tm[c].deadline # NoTime /\ tm[c].err = "none" /\ now >= tm[c].deadline
TimerFire(c) ==
    /\ TimerFireGuard(c)
    /\ tm' = [tm EXCEPT ![c].err = "DeadlineExceeded"]
    /\ UNCHANGED <<now, exit, cfg, pc, timeout, handlers, h, wg, tok, nc, wd, lst, sh, br, log, joinAt, environ, ret>>

\* a watchdog that logs the timeout and returns without ending the process
Watchdog_NoExit ==
    /\ alive /\ wd = "waiting" /\ tm.shutdownCtx.err # "none"
    /\ log' = IF tm.shutdownCtx.err = "DeadlineExceeded" THEN Logged("timed_out") ELSE log
    /\ wd' = "done"
    /\ UNCHANGED <<now, exit, cfg, pc, timeout, handlers, h, wg, tok, nc, tm, lst, sh, br, joinAt, environ, ret>>

\* go func() { <-shutdownCtx.Done(); if shutdownCtx.Err() == DeadlineExceeded {...} }()
WatchdogGuard == alive /\ wd = "waiting" /\ tm.shutdownCtx.err # "none"
Watchdog ==
    /\ WatchdogGuard
    /\ IF tm.shutdownCtx.err = "DeadlineExceeded"
       THEN /\ log' = Logged("timed_out")
            /\ exit' = "watchdog"
            /\ wd' = wd
       ELSE /\ wd' = "done"
            /\ UNCHANGED <<log, exit>>
    /\ UNCHANGED <<now, cfg, pc, timeout, handlers, h, wg, tok, nc, tm, lst, sh, br, joinAt, environ, ret>>

\* ---------------------------------------------------- the listener goroutine

\* the goroutine starts; ListenAndServe[TLS] refuses a server that is shutting down
ListenStartGuard == alive /\ lst = "spawned"
ListenStart ==
    /\ ListenStartGuard
    /\ log' = Logged("starting")
    /\ lst' = IF sh.calls > 0 THEN "refused" ELSE "checked"
    /\ UNCHANGED <<now, exit, cfg, pc, timeout, handlers, h, wg, tok, nc, tm, wd, sh, br, joinAt, environ, ret>>

\* a Serve that accepts although the server is shutting down
ListenServe_NoShutdownCheck ==
    /\ alive /\ lst = "checked"
    /\ \E ok \in BOOLEAN :
         IF ok
         THEN /\ lst' = "serving"
              /\ UNCHANGED <<exit, log>>
         ELSE /\ log' = Logged("server_failed")
              /\ exit' = "listener"
              /\ lst' = lst
    /\ UNCHANGED <<now, cfg, pc, timeout, handlers, h, wg, tok, nc, tm, wd, sh, br, joinAt, environ, ret>>

\* net.Listen, then srv.Serve: a bind failure is fatal; Serve refuses when the
\* server is shutting down and accepts otherwise
ListenServeGuard == alive /\ lst = "checked"
ListenServe ==
    /\ ListenServeGuard
    /\ \E ok \in BOOLEAN :
         IF ok
         THEN /\ lst' = IF sh.calls > 0 THEN "refused" ELSE "serving"
              /\ UNCHANGED <<exit, log>>
         ELSE /\ log' = Logged("server_failed")
              /\ exit' = "listener"
              /\ lst' = lst
    /\ UNCHANGED <<now, cfg, pc, timeout, handlers, h, wg, tok, nc, tm, wd, sh, br, joinAt, environ, ret>>

\* Serve returns http.ErrServerClosed after srv.Shutdown: swallowed
ListenClosedGuard == alive /\ lst = "closing"
ListenClosed ==
    /\ ListenClosedGuard
    /\ lst' = "closed"
    /\ UNCHANGED <<now, exit, cfg, pc, timeout, handlers, h, wg, tok, nc, tm, wd, sh, br, log, joinAt, environ, ret>>

\* Serve returns another error while serving: fatal
ListenFail ==
    /\ alive /\ lst = "serving"
    /\ log' = Logged("server_failed")
    /\ exit' = "listener"
    /\ UNCHANGED <<now, cfg, pc, timeout, handlers, h, wg, tok, nc, tm, wd, lst, sh, br, joinAt, environ, ret>>

\* ------------------------------------------------- signals and cancellation

\* the goroutine of signal.NotifyContext: select { <-c.ch: cancel(); <-c.Done(): }
NotifyContextGoGuard == alive /\ nc.go = "waiting" /\ (nc.ch > 0 \/ tok.ctxDone)
NotifyContextGo ==
    /\ NotifyContextGoGuard
    /\ \E take \in BOOLEAN :
         /\ take => nc.ch > 0
         /\ ~take => tok.ctxDone
         /\ nc' = [nc EXCEPT !.go = "done", !.ch = IF take THEN 0 ELSE @]
    /\ tok' = [tok EXCEPT !.ctxDone = TRUE]
    /\ UNCHANGED <<now, exit, cfg, pc, timeout, handlers, h, wg, tm, wd, lst, sh, br, log, joinAt, environ, ret>>

CaughtByBridge(s) == br.st # "absent" /\ s \in BridgeSignals
\* a registration that is dropped as soon as the token is cancelled
CaughtByNotifyContext_UntilCancelled(s) ==
    nc.installed /\ ~tok.ctxDone /\ s \in NotifyContextSignals

CaughtByNotifyContext(s) == nc.installed /\ s \in NotifyContextSignals

\* the process receives signal s: it goes to every channel registered for it
\* (each holds one signal; a full channel drops it); a signal nobody
\* registered for ends the process
Deliver(s) ==
    /\ alive
    /\ IF CaughtByBridge(s) \/ CaughtByNotifyContext(s)
       THEN /\ br' = [br EXCEPT !.ch = IF CaughtByBridge(s) THEN 1 ELSE @]
            /\ nc' = [nc EXCEPT !.ch = IF CaughtByNotifyContext(s) THEN 1 ELSE @]
            /\ exit' = exit
       ELSE /\ exit' = "signal"
            /\ UNCHANGED <<br, nc>>
    /\ UNCHANGED <<now, cfg, pc, timeout, handlers, h, wg, tok, tm, wd, lst, sh, log, joinAt, environ, ret>>

CtxExists == pc \notin {"idle", "tls", "notify", "test"}

\* the caller cancels a parent context of its own
ParentCancel ==
    /\ alive /\ br.st = "absent" /\ ~tok.parentDone
    /\ tok' = [parentDone |-> TRUE, ctxDone |-> (tok.ctxDone \/ CtxExists)]
    /\ UNCHANGED <<now, exit, cfg, pc, timeout, handlers, h, wg, nc, tm, wd, lst, sh, br, log, joinAt, environ, ret>>

\* -------------------------------------------------------- signals.Context

\* signals.Context() is called (before the server is started): the token is
\* created, the four signals are registered, the goroutine is started
SignalsContext ==
    /\ alive /\ pc = "idle" /\ br.st = "absent" /\ ~tok.parentDone
    /\ br' = [br EXCEPT !.st = "waiting"]
    /\ UNCHANGED <<now, exit, cfg, pc, timeout, handlers, h, wg, tok, nc, tm, wd, lst, sh, log, joinAt, environ, ret>>

\* <-sig; log.Println("Shutting down server..."); shutdownCtx, cancel :=
\* context.WithTimeout(ctx, 10*time.Second); go func() { the bridge's watchdog }()
BridgeRecvGuard == alive /\ br.st = "waiting" /\ br.ch > 0
BridgeRecv ==
    /\ BridgeRecvGuard
    /\ br' = [br EXCEPT !.st = "stopping", !.ch = 0, !.sigAt = now, !.wd = "waiting"]
    /\ log' = Logged("bridge_notice")
    /\ tm' = [tm EXCEPT !.bridgeCtx = WithTimeout(tok.parentDone, BridgeGrace)]
    /\ UNCHANGED <<now, exit, cfg, pc, timeout, handlers, h, wg, tok, nc, wd, lst, sh, joinAt, environ, ret>>

\* a bridge goroutine that goes back to wait for the next signal
BridgeStop_Loop ==
    /\ alive /\ br.st = "stopping"
    /\ tok' = [parentDone |-> TRUE, ctxDone |-> (tok.ctxDone \/ CtxExists)]
    /\ tm' = [tm EXCEPT !.bridgeCtx = Cancel(@)]
    /\ br' = [br EXCEPT !.st = "waiting"]
    /\ UNCHANGED <<now, exit, cfg, pc, timeout, handlers, h, wg, nc, wd, lst, sh, log, joinAt, environ, ret>>

\* stopCtx(): ctx is cancelled, and with it every token derived from it: the
\* bridge's own shutdownCtx and the orchestrator's ctx
BridgeStopGuard == alive /\ br.st = "stopping"
BridgeStop ==
    /\ BridgeStopGuard
    /\ tok' = [parentDone |-> TRUE, ctxDone |-> (tok.ctxDone \/ CtxExists)]
    /\ tm' = [tm EXCEPT !.bridgeCtx = Cancel(@)]
    /\ br' = [br EXCEPT !.st = "done"]
    /\ UNCHANGED <<now, exit, cfg, pc, timeout, handlers, h, wg, nc, wd, lst, sh, log, joinAt, environ, ret>>

\* go func() { <-shutdownCtx.Done(); if shutdownCtx.Err() == DeadlineExceeded { log.Fatal } }()
BridgeWatchGuard == alive /\ br.wd = "waiting" /\ tm.bridgeCtx.err # "none"
BridgeWatch ==
    /\ BridgeWatchGuard
    /\ IF tm.bridgeCtx.err = "DeadlineExceeded"
       THEN /\ log' = Logged("bridge_fatal")
            /\ exit' = "bridge"
            /\ br' = br
       ELSE /\ br' = [br EXCEPT !.wd = "done"]
            /\ UNCHANGED <<log, exit>>
    /\ UNCHANGED <<now, cfg, pc, timeout, handlers, h, wg, tok, nc, tm, wd, lst, sh, joinAt, environ, ret>>

\* ------------------------------------------------------ Start (test mode)

\* srv.Start(): the listener goroutine is started and the server is returned
Start ==
    /\ alive /\ pc = "idle"
    /\ pc' = "test"
    /\ lst' = "test_spawned"
    /\ ret' = [fn |-> "srv.Start", params |-> << >>, val |-> "srv", err |-> "nil"]
    /\ UNCHANGED <<now, exit, cfg, timeout, handlers, h, wg, tok, nc, tm, wd, sh, br, log, joinAt, environ>>

\* a test-mode goroutine that treats a failure as StartWithGracefulShutdown does
TestListen_Fatal ==
    /\ alive /\ lst = "test_spawned"
    /\ \E r \in {"ok", "bind", "tls"} :
         /\ r = "tls" => cfg.TLSEnabled
         /\ lst' = IF r = "ok" THEN "test_serving" ELSE "test_failed"
         /\ exit' = IF r = "ok" THEN exit ELSE "listener"
         /\ log' = [log EXCEPT !["test_starting"] = @ + 1,
                               !["test_failed"] = IF r = "ok" THEN @ ELSE @ + 1]
    /\ UNCHANGED <<now, cfg, pc, timeout, handlers, h, wg, tok, nc, tm, wd, sh, br, joinAt, environ, ret>>

\* the goroutine of Start: ListenAndServe[TLS] serves, or fails (the bind, or
\* with TLS the credentials) and the failure is logged
TestListenGuard == alive /\ lst = "test_spawned"
TestListen ==
    /\ TestListenGuard
    /\ \E r \in {"ok", "bind", "tls"} :
         /\ r = "tls" => cfg.TLSEnabled
         /\ lst' = IF r = "ok" THEN "test_serving" ELSE "test_failed"
         /\ log' = [log EXCEPT !["test_starting"] = @ + 1,
                               !["test_failed"] = IF r = "ok" THEN @ ELSE @ + 1]
    /\ UNCHANGED <<now, exit, cfg, pc, timeout, handlers, h, wg, tok, nc, tm, wd, sh, br, joinAt, environ, ret>>

\* the caller closes the server it was handed: http.ErrServerClosed is not logged
TestClose ==
    /\ alive /\ pc = "test" /\ lst = "test_serving"
    /\ lst' = "test_closed"
    /\ UNCHANGED <<now, exit, cfg, pc, timeout, handlers, h, wg, tok, nc, tm, wd, sh, br, log, joinAt, environ, ret>>

\* ------------------------------------------------------------------ the clock

\* some goroutine has a step to take at this instant
Runnable ==
    \/ LoadTLSGuard \/ NotifyContextGuard \/ GoListenGuard \/ AwaitCtxGuard
    \/ SpawnGuard
    \/ \E i \in DOMAIN h : HandlerStartGuard(i) \/ HandlerReturnGuard(i)
    \/ WgWaitGuard \/ SrvShutdownGuard \/ SrvShutdownReturnGuard \/ ReturnGuard
    \/ \E c \in DOMAIN tm : TimerFireGuard(c)
    \/ WatchdogGuard
    \/ ListenStartGuard \/ ListenServeGuard \/ ListenClosedGuard
    \/ NotifyContextGoGuard
    \/ BridgeRecvGuard \/ BridgeStopGuard \/ BridgeWatchGuard
    \/ TestListenGuard

\* a deadline is still to come
TimerPending == \E c \in DOMAIN tm : tm[c].deadline # NoTime /\ tm[c].err = "none"

\* time passes; it is followed while a deadline is pending and, once the server
\* has been started after the bridge's signal, up to MaxTime
Tick ==
    /\ alive /\ ~Runnable
    /\ TimerPending \/ (br.sigAt # NoTime /\ pc # "idle" /\ now < MaxTime)
    /\ now' = now + 1
    /\ UNCHANGED <<exit, cfg, pc, timeout, handlers, h, wg, tok, nc, tm, wd, lst, sh, br, log, joinAt, environ, ret>>

\* the steps the program takes by itself, and the passing of time
Step ==
    \/ LoadTLS \/ NotifyContext \/ GoListen \/ AwaitCtx
    \/ Spawn
    \/ \E i \in DOMAIN h : HandlerStart(i) \/ HandlerReturn(i)
    \/ WgWait \/ SrvShutdown \/ SrvShutdownReturn \/ Return
    \/ \E c \in DOMAIN tm : TimerFire(c)
    \/ Watchdog
    \/ ListenStart \/ ListenServe \/ ListenClosed
    \/ NotifyContextGo
    \/ BridgeRecv \/ BridgeStop \/ BridgeWatch
    \/ TestListen
    \/ Tick

\* what the caller and the environment do
Env ==
    \/ \E to \in Timeouts, hs \in HandlerLists : Call(to, hs)
    \/ SignalsContext
    \/ \E s \in Signals : Deliver(s)
    \/ ParentCancel
    \/ ListenFail
    \/ CallerExit
    \/ Start
    \/ TestClose

Next == Step \/ Env

Spec == Init /\ [][Next]_vars

\* every goroutine that can run is run, and time passes
FairSpec == Spec /\ WF_vars(Step)

\* ------------------------------------------- the environment helpers alone

server == <<now, exit, cfg, pc, timeout, handlers, h, wg, tok, nc, tm, wd, lst, sh, br, log, joinAt>>

\* the variable is not set, or set to any of the values tried
EnvInit ==
    /\ NewServer
    /\ environ \in Environs
    /\ ret = NoRet

CallEnvGetEnv(p) ==
    /\ ret' = Returned("env.GetEnv", p, env_GetEnv(p))
    /\ UNCHANGED <<server, environ>>

CallEnvGetEnvAsInt(p) ==
    /\ ret' = Returned("env.GetEnvAsInt", p, env_GetEnvAsInt(p))
    /\ UNCHANGED <<server, environ>>

CallEnvGetEnvAsBool(p) ==
    /\ ret' = Returned("env.GetEnvAsBool", p, env_GetEnvAsBool(p))
    /\ UNCHANGED <<server, environ>>

CallOsGetEnvAsInt(p) ==
    /\ ret' = Returned("os.GetEnvAsInt", p, os_GetEnvAsInt(p))
    /\ UNCHANGED <<server, environ>>

CallOsGetEnvAsBool(p) ==
    /\ ret' = Returned("os.GetEnvAsBool", p, os_GetEnvAsBool(p))
    /\ UNCHANGED <<server, environ>>

EnvNext ==
    \/ \E p \in StrParams : CallEnvGetEnv(p)
    \/ \E p \in IntParams : CallEnvGetEnvAsInt(p) \/ CallOsGetEnvAsInt(p)
    \/ \E p \in BoolParams : CallEnvGetEnvAsBool(p) \/ CallOsGetEnvAsBool(p)

EnvSpec == EnvInit /\ [][EnvNext]_vars

\* ------------------------------------------------------ states of the spec

\* the shutdown window has been opened
Entered == tm.shutdownCtx.deadline # NoTime
Deadline == tm.shutdownCtx.deadline
EnteredAt == tm.shutdownCtx.deadline - timeout

Running == alive /\ pc = "wait_ctx" /\ ~tok.ctxDone
ShuttingDown == alive /\ pc \in {"wait_ctx", "spawn", "wg_wait", "srv_shutdown", "srv_draining"}
                      /\ tok.ctxDone
\* "Shutdown complete" is reached and the process has not been ended by force
Stopped == pc \in {"complete", "returned"} /\ exit \in {"none", "clean"}
\* the process has been ended by force
ForcedExit == exit \notin {"none", "clean"}

AllReturned == \A i \in DOMAIN h : h[i].st = "returned"
HungInvoked == \E i \in DOMAIN h : handlers[i] = Hang /\ h[i].st = "running"

MaxOf(S) == IF S = {} THEN 0 ELSE CHOOSE x \in S : \A y \in S : y <= x

\* ------------------------------------------------------------------ claims

\* C1: srv.Shutdown is never invoked while a registered cleanup handler is still
\* running or not yet started: once it has been invoked, every registered
\* handler has been invoked and has returned.
C1_ShutdownOnlyAfterJoin ==
    sh.calls > 0 =>
        /\ DOMAIN h = 1..Len(handlers)
        /\ \A i \in DOMAIN h : h[i].st = "returned" /\ h[i].inv = 1 /\ h[i].retAt <= sh.at

\* srv.Shutdown has been invoked after two handlers, one of them slow, returned
C1_Witness ==
    /\ sh.calls = 1 /\ Len(handlers) = 2
    /\ handlers[1] = 0 /\ handlers[2] = MaxLat /\ sh.at = EnteredAt + MaxLat

\* C2: once the lifecycle token is cancelled the orchestrator cannot hang: in
\* every state that is neither Stopped nor ForcedExit the program has a step to
\* take or time passes, and once the shutdown window is open the clock never
\* passes its deadline before Stopped or ForcedExit is reached.
C2_NoHangWithinGrace ==
    (CtxExists /\ tok.ctxDone /\ ~Stopped /\ ~ForcedExit) =>
        /\ ENABLED Step
        /\ Entered => now <= Deadline

\* the watchdog ended a shutdown that a handler kept from finishing
C2_Witness ==
    /\ exit = "watchdog" /\ timeout > 0 /\ now = Deadline
    /\ \E i \in DOMAIN h : h[i].st = "running"

\* every goroutine that can run is run and time passes: cancellation leads to
\* Stopped or ForcedExit
C2_Terminates == (CtxExists /\ tok.ctxDone) ~> (Stopped \/ ForcedExit)

\* C3: a cleanup handler that returns an error changes nothing but the log: the
\* other handlers are invoked and run for their own time, a forced exit has a
\* cause of its own (the deadline, the listener, a signal), and when every
\* handler and the listener's shutdown return before the deadline, the latter
\* without error, the state is Stopped.
C3_HandlerFailureAbsorbed ==
    /\ log.handler_failed <= Cardinality({i \in DOMAIN h : h[i].st = "returned"})
    /\ (log.handler_failed > 0 /\ ForcedExit) =>
          \/ exit = "watchdog" /\ tm.shutdownCtx.err = "DeadlineExceeded"
          \/ exit = "srv_shutdown" /\ sh.res = "err"
          \/ exit \in {"listener", "signal"}
    /\ (log.handler_failed > 0 /\ alive /\ now > EnteredAt) =>
          \A i \in DOMAIN h :
              /\ h[i].inv = 1
              /\ handlers[i] = Hang => h[i].st = "running"
              /\ handlers[i] # Hang =>
                    \/ h[i].st = "returned" /\ h[i].retAt = h[i].startAt + handlers[i]
                    \/ h[i].st = "running" /\ now <= h[i].startAt + handlers[i]
    /\ (sh.res = "nil" /\ sh.retAt < Deadline /\ exit \notin {"listener", "signal"}) =>
          Stopped /\ AllReturned

\* Stopped although one of two handlers failed
C3_Witness ==
    /\ Stopped /\ Len(handlers) = 2 /\ log.handler_failed = 1
    /\ sh.res = "nil" /\ sh.retAt < Deadline

\* C4: when a cleanup handler never returns, the join never completes, the only
\* way the orchestrator ends the process is the watchdog, the watchdog does so
\* at the instant the grace period (counted from the entry into ShuttingDown)
\* expires, and while the process runs the clock does not pass that instant.
C4_HungHandlerForcedExitAtDeadline ==
    HungInvoked =>
        /\ ~Stopped /\ joinAt = NoTime
        /\ exit \in {"none", "watchdog", "listener", "signal"}
        /\ exit = "watchdog" => now = Deadline /\ tm.shutdownCtx.err = "DeadlineExceeded"
        /\ \A i \in DOMAIN h : h[i].st = "running" => h[i].startAt = Deadline - timeout
        /\ alive => \/ now < Deadline
                    \/ now = Deadline /\ ENABLED (TimerFire("shutdownCtx") \/ Watchdog)

\* the watchdog ended the process at the deadline of a positive grace period
C4_Witness == HungInvoked /\ exit = "watchdog" /\ timeout = MaxTimeout /\ now = MaxTimeout

\* a caught signal waits for the goroutine that will cancel the token
SignalPending ==
    \/ nc.go = "waiting" /\ nc.ch = 1
    \/ br.st = "waiting" /\ br.ch = 1
    \/ br.st = "stopping"

\* the goroutines that cancel the token on a signal have done so when they end
CancelledWhenDone == ((nc.go = "done" \/ br.st = "done") /\ CtxExists) => tok.ctxDone

\* no handler has been invoked, the shutdown window and the listener untouched
NothingShutDown == ~Entered /\ sh.calls = 0 /\ \A i \in DOMAIN h : h[i].inv = 0

\* C5 (as stated): while the orchestrator is Running, each of SIGINT, SIGTERM,
\* SIGHUP and SIGQUIT is caught and moves it to ShuttingDown.
C5_EverySignalShutsDown ==
    [][\A s \in {"SIGINT", "SIGTERM", "SIGHUP", "SIGQUIT"} :
          (Running /\ Deliver(s)) => (exit' = "none" /\ SignalPending')]_vars

\* C5 (amended): while the orchestrator is Running, SIGINT and SIGTERM, and
\* with a parent token from signals.Context also SIGHUP and SIGQUIT, are caught
\* and move it to ShuttingDown before any time passes; without such a parent
\* SIGHUP and SIGQUIT end the process with no handler invoked and the listener
\* not shut down.
C5_CaughtSignalsShutDown ==
    [][/\ \A s \in {"SIGINT", "SIGTERM", "SIGHUP", "SIGQUIT"} :
            (Running /\ Deliver(s)) =>
                IF s \in {"SIGINT", "SIGTERM"} \/ br.st # "absent"
                THEN exit' = "none" /\ SignalPending'
                ELSE exit' = "signal" /\ NothingShutDown'
       /\ CancelledWhenDone'
       /\ now' # now => ~(pc = "wait_ctx" /\ (SignalPending \/ tok.ctxDone))]_vars

\* a signal on NotifyContext's channel, and nothing else, cancelled the token,
\* and the handlers were invoked
C5_Witness ==
    /\ br.st = "absent" /\ ~tok.parentDone /\ nc.go = "done" /\ nc.ch = 0
    /\ pc = "wg_wait" /\ Len(handlers) = 2 /\ \A i \in DOMAIN h : h[i].inv = 1

\* StartWithGracefulShutdown is still running after a first signal cancelled
\* the token (through the bridge or through NotifyContext's channel)
AfterFirst ==
    /\ alive /\ tok.ctxDone /\ (br.st = "done" \/ ~tok.parentDone)
    /\ pc \in {"wait_ctx", "spawn", "wg_wait", "srv_shutdown", "srv_draining", "complete"}

\* the step changes nothing but what the signal channels hold
NoEffect ==
    /\ UNCHANGED <<now, exit, cfg, pc, timeout, handlers, h, wg, tok, tm, wd, lst, sh, log, joinAt, environ, ret>>
    /\ br'.st = br.st /\ br'.sigAt = br.sigAt /\ br'.wd = br.wd
    /\ nc'.go = nc.go /\ nc'.installed = nc.installed

InvokedAtMostOnce == sh.calls <= 1 /\ \A i \in DOMAIN h : h[i].inv <= 1

\* C6 (as stated): a termination signal (SIGINT, SIGTERM, SIGHUP, SIGQUIT) that
\* arrives after the token was cancelled has no effect; every handler and the
\* listener's shutdown are invoked at most once.
C6_LaterSignalNoEffect ==
    [][/\ \A s \in {"SIGINT", "SIGTERM", "SIGHUP", "SIGQUIT"} :
            (AfterFirst /\ Deliver(s)) => NoEffect
       /\ InvokedAtMostOnce']_vars

\* C6 (amended): a later SIGINT or SIGTERM, and with a parent token from
\* signals.Context a later SIGHUP or SIGQUIT, has no effect (nothing is invoked
\* again, the deadline stays, the process runs on); without such a parent a
\* later SIGHUP or SIGQUIT ends the process; every handler and the listener's
\* shutdown are invoked at most once.
C6_LaterCaughtSignalNoEffect ==
    [][/\ \A s \in {"SIGINT", "SIGTERM", "SIGHUP", "SIGQUIT"} :
            (AfterFirst /\ Deliver(s)) =>
                IF s \in {"SIGINT", "SIGTERM"} \/ br.st # "absent"
                THEN NoEffect
                ELSE exit' = "signal"
       /\ InvokedAtMostOnce']_vars

\* a signal arrived after the one that cancelled the token had been taken from
\* the channel, and the shutdown ran once and reached Stopped
C6_Witness ==
    /\ br.st = "absent" /\ ~tok.parentDone /\ nc.go = "done" /\ nc.ch = 1
    /\ Stopped /\ sh.calls = 1 /\ Len(handlers) = 2 /\ \A i \in DOMAIN h : h[i].inv = 1

\* C7 (as stated, for a positive grace period): when the orchestrator has left
\* Running and ended in Stopped or in ForcedExit (the watchdog fired or the
\* listener's shutdown failed), the listener's shutdown has been invoked
\* exactly once.
C7_ListenerShutDownExactlyOnce ==
    (Entered /\ timeout > 0 /\ (Stopped \/ exit \in {"watchdog", "srv_shutdown"})) =>
        sh.calls = 1

AllBelowGrace == \A i \in DOMAIN handlers : handlers[i] # Hang /\ handlers[i] < timeout

\* C8: every handler is invoked at most once and, once time has passed since
\* the entry into ShuttingDown, exactly once, with the token shutdownCtx, at the
\* instant of the entry whatever the other handlers do; when all latencies are
\* below the grace period the join completes after the largest of them.
C8_HandlersRunConcurrently ==
    /\ \A i \in DOMAIN h :
          /\ h[i].inv <= 1
          /\ h[i].st \in {"running", "returned"} =>
                h[i].inv = 1 /\ h[i].tok = "shutdownCtx" /\ h[i].startAt = EnteredAt
    /\ (alive /\ Entered /\ now > EnteredAt) => \A i \in DOMAIN h : h[i].inv = 1
    /\ (joinAt # NoTime /\ AllBelowGrace) =>
          joinAt = EnteredAt + MaxOf({handlers[i] : i \in DOMAIN handlers})

\* two handlers of latencies 1 and MaxLat, both below the grace period, joined
\* after MaxLat
C8_Witness ==
    /\ Len(handlers) = 2 /\ handlers[1] = 1 /\ handlers[2] = MaxLat /\ timeout > MaxLat
    /\ joinAt = EnteredAt + MaxLat

\* a handler that never returns is running beside one that was started and returned
C8_WitnessHang ==
    /\ Len(handlers) = 2 /\ handlers[1] = Hang /\ h[1].st = "running"
    /\ h[2].st = "returned" /\ now > EnteredAt

\* C9 (as stated): when more than BridgeGrace has passed since the bridge took
\* its signal, the process has ended.
C9_BridgeForcesExitAfterGrace ==
    (br.sigAt # NoTime /\ now > br.sigAt + BridgeGrace) => ~alive

BridgeConsistent ==
    br.st # "absent" =>
        /\ log.bridge_notice <= 1
        /\ log.bridge_notice = 1 <=> br.st \in {"stopping", "done"}
        /\ tok.parentDone <=> br.st = "done"

\* C10: with the token of signals.Context, the first of the four signals is
\* taken by the bridge, which logs its notice once and cancels the token before
\* any time passes; the token stays cancelled; a later signal does not end the
\* process and changes neither the token, the log nor the bridge.
C10_BridgeCancelsOnce ==
    [][/\ \A s \in {"SIGINT", "SIGTERM", "SIGHUP", "SIGQUIT"} :
            (br.st # "absent" /\ Deliver(s)) =>
                /\ exit' = "none"
                /\ br'.st = br.st /\ br'.sigAt = br.sigAt /\ br'.wd = br.wd
                /\ br.st = "waiting" => br'.ch = 1
                /\ UNCHANGED <<tok, log, tm>>
       /\ tok.parentDone => tok'.parentDone
       /\ BridgeConsistent'
       /\ now' # now => ~(br.st = "waiting" /\ br.ch = 1) /\ br.st # "stopping"]_vars

\* the bridge cancelled the token and logged once; a later signal is in its channel
C10_Witness ==
    /\ br.st = "done" /\ br.ch = 1 /\ tok.parentDone /\ log.bridge_notice = 1 /\ alive

\* ---- the environment helpers

DigitChar(d) ==
    CASE d = 0 -> "0" [] d = 1 -> "1" [] d = 2 -> "2" [] d = 3 -> "3" [] d = 4 -> "4"
      [] d = 5 -> "5" [] d = 6 -> "6" [] d = 7 -> "7" [] d = 8 -> "8" [] d = 9 -> "9"
\* the decimal numeral of a natural number
RECURSIVE Decimal(_)
Decimal(m) == IF m < 10 THEN <<DigitChar(m)>> ELSE Decimal(m \div 10) \o <<DigitChar(m % 10)>>
Zeros(k) == [i \in 1..k |-> "0"]
\* s is a base-10 numeral of the integer n: an optional sign, zeros, the digits
Denotes(s, n) ==
    \E sg \in {<< >>, <<"+">>, <<"-">>}, k \in 0..(MaxStr + 2) :
        /\ sg = <<"-">> => n <= 0
        /\ sg # <<"-">> => n >= 0
        /\ s = sg \o Zeros(k) \o Decimal(IF n < 0 THEN 0 - n ELSE n)
\* s is a numeral of an integer in the range of int
ValidInt(s) == \E n \in MinInt..MaxInt : Denotes(s, n)
TrueTexts == {<<"1">>, <<"t">>, <<"T">>, <<"T", "R", "U", "E">>, <<"t", "r", "u", "e">>,
              <<"T", "r", "u", "e">>}
FalseTexts == {<<"0">>, <<"f">>, <<"F">>, <<"F", "A", "L", "S", "E">>,
               <<"f", "a", "l", "s", "e">>, <<"F", "a", "l", "s", "e">>}

\* C12: for GetEnv, GetEnvAsInt and GetEnvAsBool of package env: a variable that
\* is not set gives the default with no error when a default is supplied and an
\* error when none is; a variable that is set (the empty value too) never gives
\* the default: it gives its value, parsed, with no error when it parses, and an
\* error when it does not, also when a default is supplied.
C12_EnvHelpersDefaults ==
    ret.fn \in {"env.GetEnv", "env.GetEnvAsInt", "env.GetEnvAsBool"} =>
        /\ (~environ.ok /\ Len(ret.params) > 0) => (ret.val = ret.params[1] /\ ret.err = "nil")
        /\ (~environ.ok /\ Len(ret.params) = 0) => ret.err # "nil"
        /\ (environ.ok /\ ret.fn = "env.GetEnv") => (ret.val = environ.val /\ ret.err = "nil")
        /\ (environ.ok /\ ret.fn = "env.GetEnvAsInt") =>
              IF ValidInt(environ.val)
              THEN ret.err = "nil" /\ Denotes(environ.val, ret.val)
              ELSE ret.err # "nil"
        /\ (environ.ok /\ ret.fn = "env.GetEnvAsBool") =>
              IF environ.val \in TrueTexts THEN ret.err = "nil" /\ ret.val = TRUE
              ELSE IF environ.val \in FalseTexts THEN ret.err = "nil" /\ ret.val = FALSE
              ELSE ret.err # "nil"

\* env.GetEnvAsInt has returned an error for a variable set to the empty value
\* although a default was supplied
C12_Witness ==
    /\ ret.fn = "env.GetEnvAsInt" /\ Len(ret.params) > 0
    /\ environ.ok /\ environ.val = << >>
    /\ ret.err # "nil"

\* C13: for GetEnvAsInt of package os: a variable that is set to a value that is
\* not a numeral of an integer in the range of int gives 0 and an error; and
\* for every input it gives an error exactly when env.GetEnvAsInt does, with
\* the same integer.
C13_OsGetEnvAsIntZeroOnError ==
    /\ (ret.fn = "os.GetEnvAsInt" /\ environ.ok /\ ~ValidInt(environ.val)) =>
           (ret.val = 0 /\ ret.err # "nil")
    /\ \A p \in IntParams :
           /\ (os_GetEnvAsInt(p).err = "nil") = (env_GetEnvAsInt(p).err = "nil")
           /\ os_GetEnvAsInt(p).val = env_GetEnvAsInt(p).val

\* the part of C13 that holds: the two GetEnvAsInt agree on error and value
C13_OsAgreesWithEnv ==
    \A p \in IntParams :
        /\ (os_GetEnvAsInt(p).err = "nil") = (env_GetEnvAsInt(p).err = "nil")
        /\ os_GetEnvAsInt(p).val = env_GetEnvAsInt(p).val

\* ---- the start of the server

\* C11: when TLS is enabled and the certificate/key pair cannot be loaded,
\* StartWithGracefulShutdown ends the process with a non-zero status (after one
\* error line) before the listener goroutine is started, before
\* signal.NotifyContext is installed, before the shutdown window is opened, and
\* with no cleanup handler invoked.
C11_TLSFailureExitsBeforeStart ==
    exit = "tls" =>
        /\ cfg.TLSEnabled /\ ForcedExit /\ pc = "tls"
        /\ log["tls_failed"] = 1 /\ log["starting"] = 0
        /\ lst = "none"
        /\ ~nc.installed /\ nc.go = "none"
        /\ ~Entered /\ wd = "none" /\ sh.calls = 0 /\ wg = 0
        /\ \A i \in DOMAIN h : h[i].inv = 0 /\ h[i].st = "idle"

\* the credentials failed to load in a call with cleanup handlers registered
C11_Witness == exit = "tls" /\ Len(handlers) > 0 /\ cfg.TLSEnabled

\* ---- the end of the shutdown

\* C14: Stopped and ForcedExit exclude each other: once srv.Shutdown has
\* returned nil and "Shutdown complete" is logged, the watchdog does not end
\* the process by force afterwards (stated for a positive timeout).
C14_NoWatchdogExitAfterStopped ==
    [][(timeout > 0 /\ Stopped /\ log["complete"] > 0 /\ sh.res = "nil")
           => exit' # "watchdog"]_vars

\* C15: if srv.Shutdown returns an error (the deadline passing while the
\* connections in flight drain included), the process ends in ForcedExit and
\* never in Stopped, whether the main flow or the watchdog exits first; once
\* the process has ended no cleanup handler is started and no step of the
\* shutdown runs.
C15_ShutdownErrorForcesExit ==
    /\ [](sh.res = "err" =>
            /\ ForcedExit /\ ~Stopped
            /\ pc = "srv_draining" /\ log["complete"] = 0 /\ log["shutdown_failed"] = 1)
    /\ [][(pc = "srv_draining" /\ Expired /\ ~Drained) =>
            /\ pc' = "srv_draining"
            /\ exit' \in {"none", "srv_shutdown", "watchdog", "listener", "signal"}
            /\ (exit' = "none" => (Expired /\ ~Drained)')]_vars
    /\ [][ForcedExit => UNCHANGED vars]_vars

\* srv.Shutdown has returned the token's error after the handlers had returned
\* in time, and the main flow exits before the watchdog
C15_Witness ==
    /\ exit = "srv_shutdown" /\ sh.res = "err" /\ ~sh.lnerr
    /\ tm.shutdownCtx.err = "DeadlineExceeded" /\ wd = "waiting"
    /\ Len(handlers) > 0 /\ AllReturned

\* the deadline has passed while the connections drain and the watchdog exits
\* before srv.Shutdown returns
C15_WitnessWatchdogFirst ==
    /\ exit = "watchdog" /\ pc = "srv_draining" /\ sh.res = "none" /\ Expired /\ ~Drained

\* ---- the listener goroutine and the shutdown

\* C16: when the listener goroutine ends the process because the bind failed,
\* no graceful shutdown was attempted: no cleanup handler has been invoked in
\* that run.
C16_NoHandlerWhenBindFails ==
    (exit = "listener" /\ lst = "checked") => \A i \in DOMAIN h : h[i].inv = 0

\* C17: the shutdown sequence starts only when ctx is cancelled: in every state
\* where ctx is not cancelled no cleanup handler has been invoked, the
\* watchdog has not been started, the shutdown window is not open and
\* srv.Shutdown has not been called; and ctx becomes cancelled only by a caught
\* SIGINT or SIGTERM or with the cancellation of the caller's parent context.
C17_ShutdownOnlyOnCancel ==
    /\ [](~tok.ctxDone =>
            /\ \A i \in DOMAIN h : h[i].inv = 0 /\ h[i].st = "idle"
            /\ wd = "none" /\ ~Entered /\ wg = 0
            /\ sh.calls = 0 /\ log["signal"] = 0
            /\ pc \in {"idle", "tls", "notify", "go_listen", "wait_ctx", "test"})
    /\ [][(~tok.ctxDone /\ tok.ctxDone') => (tok.parentDone' \/ nc.ch > 0)]_vars
    /\ [][nc.ch' > nc.ch =>
            \E s \in {"SIGINT", "SIGTERM"} : Deliver(s) /\ nc.installed]_vars

\* the server is serving with cleanup handlers registered and ctx not cancelled
C17_Witness == Running /\ lst = "serving" /\ Len(handlers) = MaxHandlers

\* C18: shutdownCtx, the token handed to the cleanup handlers and to
\* srv.Shutdown, does not depend on ctx: with a positive timeout it is not done
\* when a handler is invoked, although ctx (or the caller's parent context) is
\* cancelled by then, and it is done only because the grace period is over or
\* because StartWithGracefulShutdown has returned.
C18_DeadlineTokenIndependent ==
    /\ []((Entered /\ timeout > 0) =>
            /\ tm.shutdownCtx.err = "DeadlineExceeded" => now >= Deadline
            /\ tm.shutdownCtx.err = "Canceled" => pc = "returned"
            /\ \A i \in DOMAIN h : h[i].inv > 0 => h[i].startAt < Deadline)
    /\ [][\A i \in DOMAIN h :
            (timeout > 0 /\ h[i].inv = 0 /\ h'[i].inv > 0) =>
                /\ tok.ctxDone
                /\ tm.shutdownCtx.err = "none"
                /\ h'[i].tok = "shutdownCtx"]_vars

\* a handler runs with a token that is not done while the caller's parent
\* context and ctx are cancelled
C18_Witness ==
    /\ timeout > 0 /\ tok.parentDone /\ tok.ctxDone
    /\ tm.shutdownCtx.err = "none"
    /\ \E i \in DOMAIN h : h[i].st = "running" /\ h[i].tok = "shutdownCtx"

\* C19: when ctx is cancelled before the listener goroutine has begun to
\* listen, http.ErrServerClosed, which ListenAndServe then returns (at once
\* when srv.Shutdown came first, after srv.Shutdown closed the listener when
\* it had begun to serve), is swallowed: it ends nothing and logs no failure;
\* and once Stopped is reached the listener does not accept connections and
\* never starts to.
C19_ClosedErrorSwallowed ==
    /\ [](Stopped => lst \in {"spawned", "checked", "closing", "closed", "refused"})
    /\ [][sh.calls > 0 => lst' # "serving"]_vars
    /\ [][(lst' \in {"closed", "refused"} /\ lst' # lst) =>
            /\ exit' = exit
            /\ log'["server_failed"] = log["server_failed"]]_vars

\* the caller's context was cancelled, the shutdown completed, and the listener
\* goroutine, which had not begun to listen, got http.ErrServerClosed
C19_Witness == Stopped /\ alive /\ lst = "refused" /\ tok.parentDone

\* ---- test mode

\* C20: Start never ends the process and installs neither signal handling nor
\* a watchdog: it returns the server with a nil error whatever happens to the
\* listener, and a failure of the listener (the bind, the TLS credentials) is
\* only logged and leaves the caller with a server that is not serving.
C20_StartNeverExits ==
    /\ [](pc = "test" =>
            /\ exit \in {"none", "signal"}
            /\ ret.fn = "srv.Start" /\ ret.val = "srv" /\ ret.err = "nil"
            /\ ~nc.installed /\ nc.go = "none" /\ nc.ch = 0
            /\ wd = "none" /\ ~Entered /\ sh.calls = 0
            /\ lst \in {"test_spawned", "test_serving", "test_failed", "test_closed"}
            /\ lst = "test_failed" => (log["test_failed"] = 1 /\ log["server_failed"] = 0)
            /\ lst # "test_failed" => log["test_failed"] = 0)
    /\ [][(lst' = "test_failed" /\ lst # "test_failed") => exit' = exit]_vars
    /\ [][(pc = "test" /\ exit' # exit) =>
            \E s \in Signals : Deliver(s) /\ exit' = "signal"]_vars

\* with TLS enabled the listener of the test server failed and the process runs
C20_Witness ==
    /\ pc = "test" /\ alive /\ cfg.TLSEnabled
    /\ lst = "test_failed" /\ ret.fn = "srv.Start"

====
